---- MODULE Spec2Model ----
(***************************************************************************)
(* Model of antd-overlay: the overlay lifecycle of useOverlay (open,       *)
(* renderEnable, props, animationRef), the property adapters of            *)
(* useOverlay / useModal / useDrawer, and the holders collection of        *)
(* AntdOverlayProvider that useGlobalOverlay registers into.               *)
(*                                                                         *)
(* One action is one event handler together with the render it causes, the *)
(* effects React commits for that render, and the provider's render that   *)
(* applies the setHolders updaters those effects queued, in order.         *)
(***************************************************************************)
EXTENDS Integers, Sequences, FiniteSets, TLC

\* ------------------------------------------------------------------------
\* Bounds
\* ------------------------------------------------------------------------
NSites == 2      \* call sites (components that call one of the hooks)

Sites == 1..NSites
\* identities of placeholder nodes: one per call site and one being created
NodeIds == 1..(NSites + 1)
\* the most setHolders calls issued between two renders of the provider
MaxBatch == 2

\* ------------------------------------------------------------------------
\* Property bags.  A bag is a function from property names to values; all
\* values are strings (a boolean b is the string B2S(b), a callback is the
\* name of the function).
\* ------------------------------------------------------------------------
Undefined == << >>

B2S(b) == IF b THEN "true" ELSE "false"

\* { ...a, ...b }
Spread(a, b) ==
  [k \in (DOMAIN a) \cup (DOMAIN b) |-> IF k \in DOMAIN b THEN b[k] ELSE a[k]]

Has(bag, k) == k \in DOMAIN bag

BagA == [title |-> "x", customOk |-> "onOk"]
BagB == [afterClose |-> "onAfterClose", afterOpenChange |-> "onAfterOpenChange"]
BagC == [title |-> "y", maskClosable |-> "true", open |-> "false",
         customClose |-> "userClose"]

\* what callers pass to openOverlay / update
PropBags == {BagA, BagB, BagC}
\* what the provider may carry as defaultModalProps
DefaultBags ==
  {Undefined, [title |-> "dflt", maskClosable |-> "false"],
   [open |-> "true", customClose |-> "dfltClose"]}
\* what the provider may carry as defaultDrawerProps
DefaultDrawerBags == {Undefined, [title |-> "dflt", width |-> "600"]}
\* values the surface component passes to customOk
OkValues == {"v1", "v2"}

\* ------------------------------------------------------------------------
\* Hooks
\* ------------------------------------------------------------------------
Hooks == {"useOverlay", "useGlobalOverlay", "useModal", "useGlobalModal",
          "useDrawer", "useGlobalDrawer"}

IsGlobal(h) == h \in {"useGlobalOverlay", "useGlobalModal", "useGlobalDrawer"}

AdapterOf(h) ==
  IF h \in {"useModal", "useGlobalModal"} THEN "modal"
  ELSE IF h \in {"useDrawer", "useGlobalDrawer"} THEN "drawer"
  ELSE "default"

\* the local hook a global hook is built on
LocalOf(h) ==
  IF h = "useGlobalOverlay" THEN "useOverlay"
  ELSE IF h = "useGlobalModal" THEN "useModal"
  ELSE IF h = "useGlobalDrawer" THEN "useDrawer"
  ELSE h

KeyPrefix(h) ==
  IF AdapterOf(h) = "modal" THEN "use-modal"
  ELSE IF AdapterOf(h) = "drawer" THEN "use-drawer"
  ELSE "use-overlay"

VARIABLES
  provider,      \* [present, defaultModalProps, defaultDrawerProps]: the enclosing
                 \* AntdOverlayProvider, if any
  mounted,       \* mounted[s]: call site s is in the tree
  hook,          \* hook[s]: the hook the call site uses
  animationRef,  \* animationRef[s]: animationRef.current
  open,          \* open[s]
  renderEnable,  \* renderEnable[s]
  props,         \* props[s]
  contextHolder, \* contextHolder[s]: the memoised node
  controllers,   \* controllers[s]: controllers handed out by openOverlay
  holders,       \* the provider's holders state
  lastOp,        \* history: the last handler that ran, and the state it ran in
  calls,         \* history: callbacks invoked by the last handler, in order
  regCalls       \* history: addHolder / removeHolder calls of the last handler

vars == <<provider, mounted, hook, animationRef, open, renderEnable, props,
          contextHolder, controllers, holders, lastOp, calls, regCalls>>

\* ------------------------------------------------------------------------
\* The lifecycle of one call site: L = [open, renderEnable, props]
\* ------------------------------------------------------------------------
Lifecycle(s) == [open |-> open[s], renderEnable |-> renderEnable[s], props |-> props[s]]

InitialLifecycle == [open |-> FALSE, renderEnable |-> FALSE, props |-> Undefined]

\* handleClose that unmounts at once, whatever the animation option
HandleClose_Unmounts(L, animation) == [L EXCEPT !.renderEnable = FALSE]

\* handleClose that always waits for the animation
HandleClose_AlwaysAnimated(L, animation) == [L EXCEPT !.open = FALSE]

\* handleClose that hides on the first call and unmounts on the second
HandleClose_TwoStage(L, animation) ==
  IF animation /\ L.open THEN [L EXCEPT !.open = FALSE]
  ELSE [L EXCEPT !.renderEnable = FALSE]

\* handleClose: with animation only open is cleared, without it only renderEnable
HandleClose(L, animation) ==
  IF animation THEN [L EXCEPT !.open = FALSE]
  ELSE [L EXCEPT !.renderEnable = FALSE]

\* handleAnimationEnd that unmounts whatever the animation option says
HandleAnimationEnd_Always(L, animation) == [L EXCEPT !.renderEnable = FALSE]

\* handleAnimationEnd
HandleAnimationEnd(L, animation) ==
  IF animation THEN [L EXCEPT !.renderEnable = FALSE]
  ELSE L

\* openOverlay that keeps the previous session's properties under the new ones
OpenOverlay_KeepsProps(L, p) ==
  [open |-> TRUE, renderEnable |-> TRUE, props |-> Spread(L.props, p)]

\* an opener that shows the overlay without mounting it
OpenOverlay_NoMount(L, p) == [open |-> TRUE, renderEnable |-> L.renderEnable, props |-> p]

\* openOverlay(initializeProps): setRenderEnable(true); setOpen(true); setProps(p)
OpenOverlay(L, p) == [open |-> TRUE, renderEnable |-> TRUE, props |-> p]

\* update that merges into the stored properties
ControllerUpdate_Merge(L, newProps) == [L EXCEPT !.props = Spread(L.props, newProps)]

\* an update that also mounts the overlay again
ControllerUpdate_Mounts(L, newProps) == [L EXCEPT !.props = newProps, !.renderEnable = TRUE]

\* an update that shows the overlay again, cancelling a requested close
ControllerUpdate_Reopens(L, newProps) == [L EXCEPT !.props = newProps, !.open = TRUE]

\* controller.update = setProps
ControllerUpdate(L, newProps) == [L EXCEPT !.props = newProps]

\* ------------------------------------------------------------------------
\* Callbacks.  A call is [fn, arg]; the closures the adapters build are the
\* sequences of calls they make.
\* ------------------------------------------------------------------------
Call(fn, arg) == [fn |-> fn, arg |-> arg]

OnClose == "state.onClose"
OnAnimationEnd == "state.onAnimationEnd"

\* the state after the calls cs ran, in order; callbacks of the caller are
\* opaque and leave the lifecycle alone
RECURSIVE RunCalls(_, _, _)
RunCalls(L, animation, cs) ==
  IF cs = << >> THEN L
  ELSE LET c == Head(cs)
           L1 == IF c.fn = OnClose THEN HandleClose(L, animation)
                 ELSE IF c.fn = OnAnimationEnd THEN HandleAnimationEnd(L, animation)
                 ELSE L
       IN RunCalls(L1, animation, Tail(cs))

\* ------------------------------------------------------------------------
\* Property adapters: (props, state) -> the props of the surface component
\* ------------------------------------------------------------------------
WrapCustomOk(result) ==
  IF Has(result, "customOk") THEN [result EXCEPT !["customOk"] = "wrapped.customOk"]
  ELSE result

\* an adapter in which the caller's own open and customClose win
DefaultMerged_CallerWins(p, st) ==
  Spread([open |-> B2S(st.open), customClose |-> OnClose], p)

DefaultMerged(p, st) ==
  Spread(p, [open |-> B2S(st.open), customClose |-> OnClose])

DefaultPropsAdapter(p, st) == WrapCustomOk(DefaultMerged(p, st))

\* the wrapped customOk of defaultPropsAdapter
DefaultCustomOk(original, value) == <<Call(original, value), Call(OnClose, "")>>

\* a Modal adapter that blocks outside-click dismissal by default, as the Drawer's does
ModalMerged_BlocksMask(defaultProps, p, st) ==
  Spread(Spread(Spread([maskClosable |-> "false"], defaultProps), p),
         [open |-> B2S(st.open), customClose |-> OnClose,
          afterClose |-> "wrapped.afterClose"])

ModalMerged(defaultProps, p, st) ==
  Spread(Spread(defaultProps, p),
         [open |-> B2S(st.open), customClose |-> OnClose,
          afterClose |-> "wrapped.afterClose"])

ModalPropsAdapter(defaultProps, p, st) == WrapCustomOk(ModalMerged(defaultProps, p, st))

\* afterClose that forwards to the caller only
ModalAfterClose_OnlyCaller(p) ==
  IF Has(p, "afterClose") THEN <<Call(p["afterClose"], "")>> ELSE << >>

\* afterClose that unmounts before it forwards to the caller
ModalAfterClose_NotifyFirst(p) ==
  <<Call(OnAnimationEnd, "")>>
    \o (IF Has(p, "afterClose") THEN <<Call(p["afterClose"], "")>> ELSE << >>)

\* the afterClose closure of the Modal adapter
ModalAfterClose(p) ==
  (IF Has(p, "afterClose") THEN <<Call(p["afterClose"], "")>> ELSE << >>)
    \o <<Call(OnAnimationEnd, "")>>

\* the wrapped customOk of the Modal adapter
ModalCustomOk(original, value) == <<Call(original, value), Call(OnClose, "")>>

DrawerMerged(p, st) ==
  Spread(Spread([maskClosable |-> "false"], p),
         [open |-> B2S(st.open), customClose |-> OnClose,
          afterOpenChange |-> "wrapped.afterOpenChange"])

DrawerPropsAdapter(p, st) == WrapCustomOk(DrawerMerged(p, st))

\* afterOpenChange that does not look at the flag
DrawerAfterOpenChange_NoFlagCheck(p, flag) ==
  (IF Has(p, "afterOpenChange") THEN <<Call(p["afterOpenChange"], B2S(flag))>> ELSE << >>)
    \o <<Call(OnAnimationEnd, "")>>

\* the afterOpenChange closure of the Drawer adapter
DrawerAfterOpenChange(p, flag) ==
  (IF Has(p, "afterOpenChange") THEN <<Call(p["afterOpenChange"], B2S(flag))>> ELSE << >>)
    \o (IF ~flag THEN <<Call(OnAnimationEnd, "")>> ELSE << >>)

\* wrapped customOk that closes before it forwards
DrawerCustomOk_CloseFirst(original, value) == <<Call(OnClose, ""), Call(original, value)>>

\* the wrapped customOk of the Drawer adapter
DrawerCustomOk(original, value) == <<Call(original, value), Call(OnClose, "")>>

\* propsAdapter(props, state) of a hook
PropsAdapter(h, defaultProps, p, st) ==
  IF AdapterOf(h) = "modal" THEN ModalPropsAdapter(defaultProps, p, st)
  ELSE IF AdapterOf(h) = "drawer" THEN DrawerPropsAdapter(p, st)
  ELSE DefaultPropsAdapter(p, st)

\* result before customOk is wrapped: where originalCustomOk is read
Merged(h, defaultProps, p, st) ==
  IF AdapterOf(h) = "modal" THEN ModalMerged(defaultProps, p, st)
  ELSE IF AdapterOf(h) = "drawer" THEN DrawerMerged(p, st)
  ELSE DefaultMerged(p, st)

\* what one invocation of the surface's customOk(value) calls
CustomOkCalls(h, defaultProps, p, st, value) ==
  LET result == Merged(h, defaultProps, p, st)
  IN IF ~Has(result, "customOk") THEN << >>
     ELSE IF AdapterOf(h) = "modal" THEN ModalCustomOk(result["customOk"], value)
     ELSE IF AdapterOf(h) = "drawer" THEN DrawerCustomOk(result["customOk"], value)
     ELSE DefaultCustomOk(result["customOk"], value)

\* ------------------------------------------------------------------------
\* The placeholder node (contextHolder) and the provider's holders
\* ------------------------------------------------------------------------
NoNode == [id |-> 0, key |-> <<"", 0>>, type |-> "none", props |-> Undefined]

\* key = `${keyPrefix}-${id}`; useId gives each call site its own id
RenderKey(h, s) == <<KeyPrefix(h), s>>

\* useAntdOverlayContext() is null: no AntdOverlayProvider encloses the call sites
NoProvider ==
  [present |-> FALSE, defaultModalProps |-> Undefined, defaultDrawerProps |-> Undefined]

\* the error useGlobalOverlay throws
ConfigError == "useGlobalOverlay must be used within an AntdOverlayProvider"

\* a hook family in which only useGlobalOverlay itself looks for the provider
HookThrows_OnlyOverlay(h) == h = "useGlobalOverlay" /\ ~provider.present

\* a hook family in which every hook insists on a provider
HookThrows_Always(h) == ~provider.present

\* if (!context) throw: only useGlobalOverlay looks at the context this way,
\* and it does so before useOverlay creates any state
HookThrows(h) == IsGlobal(h) /\ ~provider.present

\* context?.defaultModalProps
ContextDefaultModalProps ==
  IF provider.present THEN provider.defaultModalProps ELSE Undefined

\* the element the useMemo of contextHolder computes
Element(h, s, L) ==
  IF ~L.renderEnable
  THEN [key |-> RenderKey(h, s), type |-> "Fragment", props |-> Undefined]
  ELSE [key |-> RenderKey(h, s), type |-> "OverlayComponent",
        props |-> PropsAdapter(h, ContextDefaultModalProps, L.props, [open |-> L.open])]

\* an element together with its identity as an object
MakeNode(id, h, s, L) ==
  LET e == Element(h, s, L)
  IN [id |-> id, key |-> e.key, type |-> e.type, props |-> e.props]

HolderIds == {holders[i].id : i \in DOMAIN holders}
UsedIds == {contextHolder[s].id : s \in Sites} \cup HolderIds

FreshId == CHOOSE i \in NodeIds \ UsedIds : \A j \in NodeIds \ UsedIds : i <= j

\* a registry that puts the newest holder first
AddHolder_Prepend(prev, holder) == <<holder>> \o prev

\* addHolder: setHolders((prev) => [...prev, holder])
AddHolder(prev, holder) == Append(prev, holder)

\* a registry that compares holders by value instead of by identity
RemoveHolder_ByValue(prev, holder) ==
  SelectSeq(prev, LAMBDA h : ~(h.key = holder.key /\ h.type = holder.type
                               /\ h.props = holder.props))

\* removeHolder: setHolders((prev) => prev.filter((h) => h !== holder))
RemoveHolder(prev, holder) == SelectSeq(prev, LAMBDA h : h.id # holder.id)

\* the nested content of the provider, as one entry of its output
ChildrenNode == [id |-> 0, key |-> <<"children", 0>>, type |-> "children", props |-> Undefined]

\* what AntdOverlayProvider renders: {children}, then {holders}
ProviderOutput(hs) == <<ChildrenNode>> \o hs

Updater(fn, node) == [fn |-> fn, node |-> node]

\* updaters that all start from the holders of the last render, so that the
\* last call of a batch overwrites the earlier ones
ApplyUpdaters_Stale(prev, q) ==
  IF q = << >> THEN prev
  ELSE LET u == q[Len(q)]
       IN IF u.fn = "addHolder" THEN AddHolder(prev, u.node)
          ELSE RemoveHolder(prev, u.node)

\* the holders after React applied the queued updaters in order
RECURSIVE ApplyUpdaters(_, _)
ApplyUpdaters(prev, q) ==
  IF q = << >> THEN prev
  ELSE LET u == Head(q)
       IN ApplyUpdaters(IF u.fn = "addHolder" THEN AddHolder(prev, u.node)
                        ELSE RemoveHolder(prev, u.node),
                        Tail(q))

\* an effect without cleanup
EffectCalls_NoCleanup(h, old, new) ==
  IF IsGlobal(h) /\ new # old THEN <<Updater("addHolder", new)>> ELSE << >>

\* an effect that registers on mount only and never again
EffectCalls_Never(h, old, new) == << >>

\* the effect of useGlobalOverlay after a render that changed contextHolder:
\* the cleanup of the previous effect, then the effect itself
EffectCalls(h, old, new) ==
  IF IsGlobal(h) /\ new # old
  THEN <<Updater("removeHolder", old), Updater("addHolder", new)>>
  ELSE << >>

\* a teardown that leaves the placeholder registered
CleanupCalls_None(h, node) == << >>

\* the cleanup of the last effect of useGlobalOverlay, run when the call site
\* is torn down
CleanupCalls(h, node) ==
  IF IsGlobal(h) THEN <<Updater("removeHolder", node)>> ELSE << >>

\* ------------------------------------------------------------------------
\* Initial state: nothing is mounted; the tree may or may not have a provider
\* ------------------------------------------------------------------------
\* the record kept of the last handler: its name, call site, controller,
\* argument, and the call site's state when it was called
Op(name, s, ctrl, arg, val) ==
  [op |-> name, site |-> s, ctrl |-> ctrl, arg |-> arg, val |-> val,
   pre |-> IF s \in Sites
           THEN [open |-> open[s], renderEnable |-> renderEnable[s],
                 props |-> props[s], animation |-> animationRef[s],
                 holder |-> contextHolder[s], hook |-> hook[s],
                 holders |-> holders]
           ELSE [open |-> FALSE, renderEnable |-> FALSE, props |-> Undefined,
                 animation |-> FALSE, holder |-> NoNode, hook |-> "useOverlay",
                 holders |-> holders]]

NoOp ==
  [op |-> "init", site |-> 0, ctrl |-> "", arg |-> Undefined, val |-> "",
   pre |-> [open |-> FALSE, renderEnable |-> FALSE, props |-> Undefined,
            animation |-> FALSE, holder |-> NoNode, hook |-> "useOverlay",
            holders |-> << >>]]

Init ==
  /\ provider \in {NoProvider}
                   \cup {[present |-> TRUE, defaultModalProps |-> d, defaultDrawerProps |-> e] :
                           d \in DefaultBags, e \in DefaultDrawerBags}
  /\ mounted = [s \in Sites |-> FALSE]
  /\ hook = [s \in Sites |-> "useOverlay"]
  /\ animationRef = [s \in Sites |-> TRUE]
  /\ open = [s \in Sites |-> FALSE]
  /\ renderEnable = [s \in Sites |-> FALSE]
  /\ props = [s \in Sites |-> Undefined]
  /\ contextHolder = [s \in Sites |-> NoNode]
  /\ controllers = [s \in Sites |-> {}]
  /\ holders = << >>
  /\ lastOp = NoOp
  /\ calls = << >>
  /\ regCalls = << >>

\* a dependency list that leaves out open
DepsChanged_NoOpen(s, L2, newObj) ==
  \/ L2.renderEnable # renderEnable[s]
  \/ L2.props # props[s]
  \/ newObj

\* ------------------------------------------------------------------------
\* One handler on a mounted call site: the lifecycle becomes L2, the
\* component re-renders, useMemo recomputes contextHolder when a dependency
\* changed (newObj: props was set to a new object), and the effect of
\* useGlobalOverlay swaps the registered node (cleanup of the previous effect,
\* then the new effect), and the provider applies the two updaters.
\* ------------------------------------------------------------------------
\* the dependency list of the useMemo of contextHolder: renderEnable, open,
\* props (the others never change while the call site is mounted)
DepsChanged(s, L2, newObj) ==
  \/ L2.renderEnable # renderEnable[s]
  \/ L2.open # open[s]
  \/ L2.props # props[s]
  \/ newObj

Commit(s, L2, newObj, ctrls, op, cs) ==
  LET changed == DepsChanged(s, L2, newObj)
      node == IF changed THEN MakeNode(FreshId, hook[s], s, L2) ELSE contextHolder[s]
      reg == EffectCalls(hook[s], contextHolder[s], node)
  IN /\ open' = [open EXCEPT ![s] = L2.open]
     /\ renderEnable' = [renderEnable EXCEPT ![s] = L2.renderEnable]
     /\ props' = [props EXCEPT ![s] = L2.props]
     /\ contextHolder' = [contextHolder EXCEPT ![s] = node]
     /\ controllers' = [controllers EXCEPT ![s] = ctrls]
     /\ holders' = ApplyUpdaters(holders, reg)
     /\ regCalls' = reg
     /\ calls' = cs
     /\ lastOp' = op
     /\ UNCHANGED <<provider, mounted, hook, animationRef>>

\* A component that calls hook h with option animation = a renders for the
\* first time.  When the hook throws, React discards the render: no state is
\* created and no effect runs.
MountSite(s, h, a) ==
  /\ ~mounted[s]
  /\ IF HookThrows(h)
     THEN /\ calls' = <<Call("throw", ConfigError)>>
          /\ regCalls' = << >>
          /\ lastOp' = Op("mount", s, "", Undefined, h)
          /\ UNCHANGED <<provider, mounted, hook, animationRef, open, renderEnable,
                         props, contextHolder, controllers, holders>>
     ELSE LET node == MakeNode(FreshId, h, s, InitialLifecycle)
              reg == IF IsGlobal(h) THEN <<Updater("addHolder", node)>> ELSE << >>
          IN /\ mounted' = [mounted EXCEPT ![s] = TRUE]
             /\ hook' = [hook EXCEPT ![s] = h]
             /\ animationRef' = [animationRef EXCEPT ![s] = a]
             /\ open' = [open EXCEPT ![s] = FALSE]
             /\ renderEnable' = [renderEnable EXCEPT ![s] = FALSE]
             /\ props' = [props EXCEPT ![s] = Undefined]
             /\ contextHolder' = [contextHolder EXCEPT ![s] = node]
             /\ controllers' = [controllers EXCEPT ![s] = {}]
             /\ holders' = ApplyUpdaters(holders, reg)
             /\ regCalls' = reg
             /\ calls' = << >>
             /\ lastOp' = Op("mount", s, "", Undefined, h)
             /\ UNCHANGED provider

\* The component is torn down: the effect's cleanup runs, the state is gone.
UnmountSite(s) ==
  /\ mounted[s]
  /\ LET reg == CleanupCalls(hook[s], contextHolder[s])
     IN /\ mounted' = [mounted EXCEPT ![s] = FALSE]
        /\ hook' = [hook EXCEPT ![s] = "useOverlay"]
        /\ animationRef' = [animationRef EXCEPT ![s] = TRUE]
        /\ open' = [open EXCEPT ![s] = FALSE]
        /\ renderEnable' = [renderEnable EXCEPT ![s] = FALSE]
        /\ props' = [props EXCEPT ![s] = Undefined]
        /\ contextHolder' = [contextHolder EXCEPT ![s] = NoNode]
        /\ controllers' = [controllers EXCEPT ![s] = {}]
        /\ holders' = ApplyUpdaters(holders, reg)
        /\ regCalls' = reg
        /\ calls' = << >>
        /\ lastOp' = Op("unmount", s, "", Undefined, "")
        /\ UNCHANGED provider

\* The component re-renders with another value of the animation option:
\* animationRef.current = animation
SetAnimation(s, a) ==
  /\ mounted[s]
  /\ a # animationRef[s]
  /\ animationRef' = [animationRef EXCEPT ![s] = a]
  /\ lastOp' = Op("setAnimation", s, "", Undefined, B2S(a))
  /\ calls' = << >>
  /\ regCalls' = << >>
  /\ UNCHANGED <<provider, mounted, hook, open, renderEnable, props, contextHolder,
                 controllers, holders>>

\* openOverlay(p); p = Undefined is the call without an argument
Open(s, p) ==
  /\ mounted[s]
  /\ Commit(s, OpenOverlay(Lifecycle(s), p), p # Undefined,
            IF controllers[s] = {} THEN {"current"} ELSE {"current", "superseded"},
            Op("open", s, "", p, ""), << >>)

\* controller.update(p), on the controller c
Update(s, c, p) ==
  /\ mounted[s]
  /\ c \in controllers[s]
  /\ Commit(s, ControllerUpdate(Lifecycle(s), p), TRUE, controllers[s],
            Op("update", s, c, p, ""), << >>)

\* controller.close(), on the controller c
Close(s, c) ==
  /\ mounted[s]
  /\ c \in controllers[s]
  /\ Commit(s, HandleClose(Lifecycle(s), animationRef[s]), FALSE, controllers[s],
            Op("close", s, c, Undefined, ""), << >>)

\* the surface component calls the customClose it was given
CustomClose(s) ==
  /\ mounted[s]
  /\ renderEnable[s]
  /\ LET cs == <<Call(OnClose, "")>>
     IN Commit(s, RunCalls(Lifecycle(s), animationRef[s], cs), FALSE, controllers[s],
               Op("customClose", s, "", Undefined, ""), cs)

\* the surface component calls the customOk it was given with value v
CustomOk(s, v) ==
  /\ mounted[s]
  /\ renderEnable[s]
  /\ LET cs == CustomOkCalls(hook[s], ContextDefaultModalProps, props[s],
                             [open |-> open[s]], v)
     IN Commit(s, RunCalls(Lifecycle(s), animationRef[s], cs), FALSE, controllers[s],
               Op("customOk", s, "", Undefined, v), cs)

\* antd's Modal reports that its closing transition finished
AfterClose(s) ==
  /\ mounted[s]
  /\ renderEnable[s]
  /\ AdapterOf(hook[s]) = "modal"
  /\ LET cs == ModalAfterClose(props[s])
     IN Commit(s, RunCalls(Lifecycle(s), animationRef[s], cs), FALSE, controllers[s],
               Op("afterClose", s, "", Undefined, ""), cs)

\* antd's Drawer reports that a transition finished; flag: it is now open
AfterOpenChange(s, flag) ==
  /\ mounted[s]
  /\ renderEnable[s]
  /\ AdapterOf(hook[s]) = "drawer"
  /\ LET cs == DrawerAfterOpenChange(props[s], flag)
     IN Commit(s, RunCalls(Lifecycle(s), animationRef[s], cs), FALSE, controllers[s],
               Op("afterOpenChange", s, "", Undefined, B2S(flag)), cs)

\* state.onAnimationEnd called by a propsAdapter the caller supplied
AnimationEnd(s) ==
  /\ mounted[s]
  /\ AdapterOf(hook[s]) = "default"
  /\ LET cs == <<Call(OnAnimationEnd, "")>>
     IN Commit(s, RunCalls(Lifecycle(s), animationRef[s], cs), FALSE, controllers[s],
               Op("animationEnd", s, "", Undefined, ""), cs)

\* The steps of the call sites in S, mounted with hooks of H, called with
\* property bags of P
\* Nodes handed to the context functions by arbitrary callers of
\* useAntdOverlayContext(): distinct instances, some of them equal by value.
ContextNodes ==
  {[id |-> i, key |-> <<"use-overlay", (i % 2) + 1>>, type |-> "Fragment", props |-> Undefined] :
     i \in NodeIds}

\* the batches of addHolder / removeHolder calls between two renders
Batches ==
  UNION {[1..n -> {Updater(fn, node) : fn \in {"addHolder", "removeHolder"},
                                       node \in ContextNodes}] : n \in 1..MaxBatch}

\* a React node instance is registered at most once at a time
RECURSIVE RegistersOnce(_, _)
RegistersOnce(prev, q) ==
  IF q = << >> THEN TRUE
  ELSE LET u == Head(q)
       IN IF u.fn = "addHolder"
          THEN /\ \A i \in 1..Len(prev) : prev[i].id # u.node.id
               /\ RegistersOnce(AddHolder(prev, u.node), Tail(q))
          ELSE RegistersOnce(RemoveHolder(prev, u.node), Tail(q))

\* Callers issue the batch q of addHolder / removeHolder calls; the provider
\* applies the queued updaters in order and renders again.
ContextCalls(q) ==
  /\ provider.present
  /\ RegistersOnce(holders, q)
  /\ holders' = ApplyUpdaters(holders, q)
  /\ regCalls' = q
  /\ calls' = << >>
  /\ lastOp' = Op("contextCalls", 0, "", Undefined, "")
  /\ UNCHANGED <<provider, mounted, hook, animationRef, open, renderEnable, props,
                 contextHolder, controllers>>

NextOf(S, H, P) ==
  \/ \E s \in S, h \in H, a \in BOOLEAN : MountSite(s, h, a)
  \/ \E s \in S : UnmountSite(s)
  \/ \E s \in S, a \in BOOLEAN : SetAnimation(s, a)
  \/ \E s \in S, p \in P \cup {Undefined} : Open(s, p)
  \/ \E s \in S, c \in {"current", "superseded"}, p \in P : Update(s, c, p)
  \/ \E s \in S, c \in {"current", "superseded"} : Close(s, c)
  \/ \E s \in S : CustomClose(s)
  \/ \E s \in S, v \in OkValues : CustomOk(s, v)
  \/ \E s \in S : AfterClose(s)
  \/ \E s \in S, flag \in BOOLEAN : AfterOpenChange(s, flag)
  \/ \E s \in S : AnimationEnd(s)

\* The lifecycle of a call site does not depend on the other call sites (they
\* share only the provider's holders): Spec follows one call site, with any
\* hook and any property bag.
ActiveSites == {1}

Next == NextOf(ActiveSites, Hooks, PropBags)

Spec == Init /\ [][Next]_vars

\* The same steps where the concrete component reports every closing
\* transition it was asked to play: antd calls afterClose / afterOpenChange(false)
\* once the leave transition of a closed, still mounted overlay has ended.
Closing(s) == mounted[s] /\ animationRef[s] /\ renderEnable[s] /\ ~open[s]

ClosingReported(s) == Closing(s) /\ (AfterClose(s) \/ AfterOpenChange(s, FALSE))

LiveSpec == Spec /\ \A s \in ActiveSites : WF_vars(ClosingReported(s))

\* Several call sites of one global hook under one provider: what they do to
\* the provider's holders.
RegistryInit ==
  /\ Init
  /\ provider = [present |-> TRUE, defaultModalProps |-> Undefined,
                 defaultDrawerProps |-> Undefined]

\* The holders relate call sites pairwise: RegistrySpec follows two of them.
RegistrySites == {1, 2}

RegistryNext ==
  \/ \E s \in RegistrySites, a \in BOOLEAN : MountSite(s, "useGlobalModal", a)
  \/ \E s \in RegistrySites : UnmountSite(s)
  \/ \E s \in RegistrySites : Open(s, BagA)
  \/ \E s \in RegistrySites : Update(s, "current", BagB)
  \/ \E s \in RegistrySites : Close(s, "current")
  \/ \E s \in RegistrySites : AfterClose(s)

RegistrySpec == RegistryInit /\ [][RegistryNext]_vars

\* The provider on its own, driven through the context value it publishes.
ProviderInit ==
  /\ Init
  /\ provider = [present |-> TRUE, defaultModalProps |-> Undefined,
                 defaultDrawerProps |-> Undefined]

ProviderNext == \E q \in Batches : ContextCalls(q)

ProviderSpec == ProviderInit /\ [][ProviderNext]_vars

\* ------------------------------------------------------------------------
\* Properties
\* ------------------------------------------------------------------------
Invoked(fn) == \E i \in DOMAIN calls : calls[i].fn = fn

IsRequestClose == lastOp.op \in {"close", "customClose"}

EmptyPlaceholder(s) ==
  /\ contextHolder[s].type = "Fragment"
  /\ contextHolder[s].props = Undefined
  /\ contextHolder[s].key = RenderKey(hook[s], s)

\* C1: with animation enabled, requestClose on a mounted, open overlay leaves
\* open = FALSE and renderEnable = TRUE, and a mounted overlay of a live call
\* site is unmounted only by a step that invoked onAnimationEnd.
C1_AnimatedCloseIsTwoPhase ==
  \A s \in Sites :
    (lastOp.site = s /\ mounted[s] /\ lastOp.pre.animation /\ lastOp.pre.renderEnable)
      => /\ (IsRequestClose /\ lastOp.pre.open) => (~open[s] /\ renderEnable[s])
         /\ ~renderEnable[s] => Invoked(OnAnimationEnd)

C1_Witness ==
  \E s \in Sites :
    /\ lastOp.site = s /\ lastOp.op = "close"
    /\ lastOp.pre.animation /\ lastOp.pre.renderEnable /\ lastOp.pre.open
    /\ ~open[s] /\ renderEnable[s]

\* C2: with animation disabled, requestClose on a mounted overlay clears
\* renderEnable in the same step, the placeholder is the empty keyed node,
\* and onAnimationEnd was not invoked.
C2_PlainCloseIsOnePhase ==
  \A s \in Sites :
    (lastOp.site = s /\ IsRequestClose /\ ~lastOp.pre.animation /\ lastOp.pre.renderEnable)
      => /\ ~renderEnable[s]
         /\ EmptyPlaceholder(s)
         /\ ~Invoked(OnAnimationEnd)

C2_Witness ==
  \E s \in Sites :
    /\ lastOp.site = s /\ IsRequestClose
    /\ ~lastOp.pre.animation /\ lastOp.pre.renderEnable /\ lastOp.pre.open
    /\ ~renderEnable[s] /\ contextHolder[s].type = "Fragment"

\* C3: renderEnable = FALSE implies open = FALSE, in every reachable state.
C3_UnmountedImpliesClosed ==
  \A s \in Sites : (mounted[s] /\ ~renderEnable[s]) => ~open[s]

\* C4: update and close on a superseded controller leave open, renderEnable
\* and props of the current session as they were.
C4_SupersededControllerIsInert ==
  \A s \in Sites :
    (lastOp.site = s /\ lastOp.ctrl = "superseded")
      => /\ open[s] = lastOp.pre.open
         /\ renderEnable[s] = lastOp.pre.renderEnable
         /\ props[s] = lastOp.pre.props

\* C5: openOverlay(p2) on a mounted overlay gives renderEnable, open, props
\* exactly p2 (undefined without an argument), and the same key as before.
C5_ReopenStartsFresh ==
  \A s \in Sites :
    (lastOp.site = s /\ lastOp.op = "open" /\ lastOp.pre.renderEnable)
      => /\ renderEnable[s] /\ open[s]
         /\ props[s] = lastOp.arg
         /\ contextHolder[s].key = lastOp.pre.holder.key

C5_Witness ==
  \E s \in Sites :
    /\ lastOp.site = s /\ lastOp.op = "open"
    /\ lastOp.pre.renderEnable /\ lastOp.pre.open
    /\ (DOMAIN lastOp.pre.props) \ (DOMAIN lastOp.arg) # {}
    /\ props[s] = lastOp.arg

\* C6: controller.update(p) replaces props: afterwards props is exactly p.
C6_UpdateReplaces ==
  \A s \in Sites :
    (lastOp.site = s /\ lastOp.op = "update") => props[s] = lastOp.arg

C6_Witness ==
  \E s \in Sites :
    /\ lastOp.site = s /\ lastOp.op = "update"
    /\ (DOMAIN lastOp.pre.props) \ (DOMAIN lastOp.arg) # {}
    /\ props[s] = lastOp.arg

\* C7: when the caller's props carry customOk, one customOk(v) from the
\* surface component calls the caller's customOk once with v and then onClose
\* once, for every adapter; with animation the overlay is then closing.
C7_ConfirmForwardsThenCloses ==
  \A s \in Sites :
    (lastOp.site = s /\ lastOp.op = "customOk" /\ Has(lastOp.pre.props, "customOk"))
      => /\ calls = <<Call(lastOp.pre.props["customOk"], lastOp.val), Call(OnClose, "")>>
         /\ lastOp.pre.animation => (~open[s] /\ renderEnable[s])

C7_Witness ==
  \E s \in Sites :
    /\ lastOp.site = s /\ lastOp.op = "customOk"
    /\ Has(lastOp.pre.props, "customOk")
    /\ AdapterOf(hook[s]) = "drawer"
    /\ lastOp.pre.animation /\ lastOp.pre.open
    /\ ~open[s] /\ renderEnable[s]

\* C8: a Modal or Drawer overlay that is closing with animation, whose
\* component reports the end of the closing transition, is eventually
\* unmounted with the empty placeholder, unless it is opened again (or its
\* call site goes away or turns animation off) first.
C8_ClosingEndsUnmounted ==
  \A s \in ActiveSites :
    (Closing(s) /\ AdapterOf(hook[s]) \in {"modal", "drawer"})
      ~> \/ ~renderEnable[s] /\ mounted[s] /\ EmptyPlaceholder(s)
         \/ open[s]
         \/ ~mounted[s]
         \/ ~animationRef[s]

C8_Witness ==
  \E s \in Sites :
    /\ lastOp.site = s /\ lastOp.op = "afterClose"
    /\ lastOp.pre.animation /\ lastOp.pre.renderEnable /\ ~lastOp.pre.open
    /\ ~renderEnable[s] /\ EmptyPlaceholder(s)

\* C9: in the Drawer adapter afterOpenChange(flag) invokes onAnimationEnd
\* exactly when flag is false, and afterOpenChange(true) changes neither
\* renderEnable nor open.
C9_DrawerIgnoresOpened ==
  \A s \in Sites :
    (lastOp.site = s /\ lastOp.op = "afterOpenChange")
      => /\ Invoked(OnAnimationEnd) <=> (lastOp.val = "false")
         /\ lastOp.val = "true"
              => (renderEnable[s] = lastOp.pre.renderEnable /\ open[s] = lastOp.pre.open)

C9_Witness ==
  \E s \in Sites :
    /\ lastOp.site = s /\ lastOp.op = "afterOpenChange" /\ lastOp.val = "true"
    /\ lastOp.pre.animation /\ lastOp.pre.renderEnable
    /\ renderEnable[s]

C11_RendersInRegistrationOrder ==
  (/\ lastOp.op = "contextCalls"
   /\ \A i \in 1..Len(regCalls) : regCalls[i].fn = "addHolder")
  => ProviderOutput(holders)
       = <<ChildrenNode>> \o lastOp.pre.holders
           \o [i \in 1..Len(regCalls) |-> regCalls[i].node]

\* a third registration, after two earlier ones and no deregistration: the
\* output is the children, then the three nodes in registration order
C11_Witness ==
  /\ lastOp.op = "contextCalls"
  /\ Len(lastOp.pre.holders) = 2
  /\ Len(regCalls) = 1
  /\ regCalls[1].fn = "addHolder"
  /\ ProviderOutput(holders)
       = <<ChildrenNode, lastOp.pre.holders[1], lastOp.pre.holders[2], regCalls[1].node>>

\* C12: removeHolder(n) removes exactly the entry that is the instance n and
\* keeps every other entry in its place, also when a distinct node equal to n
\* by value is registered; when n is not registered the registry is unchanged.
C12_DeregisterRemovesThatInstance ==
  (/\ lastOp.op = "contextCalls"
   /\ Len(regCalls) = 1
   /\ regCalls[1].fn = "removeHolder")
  => LET n == regCalls[1].node
         pre == lastOp.pre.holders
     IN IF \A i \in 1..Len(pre) : pre[i].id # n.id
        THEN holders = pre
        ELSE \E i \in 1..Len(pre) :
               /\ pre[i].id = n.id
               /\ holders = SubSeq(pre, 1, i - 1) \o SubSeq(pre, i + 1, Len(pre))

\* n is removed while a distinct node equal to it by value stays registered
C12_Witness ==
  /\ lastOp.op = "contextCalls"
  /\ Len(regCalls) = 1
  /\ regCalls[1].fn = "removeHolder"
  /\ \E i \in 1..Len(lastOp.pre.holders) : lastOp.pre.holders[i].id = regCalls[1].node.id
  /\ \A i \in 1..Len(holders) : holders[i].id # regCalls[1].node.id
  /\ \E i \in 1..Len(holders) :
       /\ holders[i].key = regCalls[1].node.key
       /\ holders[i].type = regCalls[1].node.type
       /\ holders[i].props = regCalls[1].node.props

\* C13: a global hook (useGlobalOverlay, useGlobalModal, useGlobalDrawer) called
\* without an enclosing provider throws the configuration error, and that
\* render creates no lifecycle state and issues no registry call.
C13_GlobalWithoutProviderThrowsFirst ==
  \A s \in Sites :
    (/\ lastOp.op = "mount"
     /\ lastOp.site = s
     /\ IsGlobal(lastOp.val)
     /\ ~provider.present)
    => /\ calls = <<Call("throw", ConfigError)>>
       /\ ~mounted[s]
       /\ Lifecycle(s) = InitialLifecycle
       /\ Lifecycle(s) = [open |-> lastOp.pre.open, renderEnable |-> lastOp.pre.renderEnable,
                          props |-> lastOp.pre.props]
       /\ contextHolder[s] = NoNode
       /\ controllers[s] = {}
       /\ regCalls = << >>
       /\ holders = lastOp.pre.holders

\* useGlobalModal was called without a provider and threw
C13_Witness ==
  /\ lastOp.op = "mount"
  /\ lastOp.val = "useGlobalModal"
  /\ ~provider.present
  /\ Invoked("throw")
  /\ ~mounted[lastOp.site]

\* C14: for Modal and for Drawer, the properties handed to the surface component
\* contain every default property the provider sets for that kind
\* (defaultModalProps, defaultDrawerProps), with the caller's value where the
\* caller supplies the same property.
C14_DefaultsReachSurface ==
  \A s \in Sites :
    (mounted[s] /\ renderEnable[s])
    => LET d == IF AdapterOf(hook[s]) = "modal" THEN provider.defaultModalProps
                ELSE IF AdapterOf(hook[s]) = "drawer" THEN provider.defaultDrawerProps
                ELSE Undefined
       IN \A k \in DOMAIN d :
            /\ Has(contextHolder[s].props, k)
            /\ contextHolder[s].props[k] = IF Has(props[s], k) THEN props[s][k] ELSE d[k]

\* C15 as stated: both the Modal and the Drawer adapter produce
\* maskClosable = false when the caller's props have no maskClosable, and the
\* caller's value when they have one.
C15_BothDefaultMaskClosable ==
  \A s \in Sites :
    (mounted[s] /\ renderEnable[s] /\ AdapterOf(hook[s]) \in {"modal", "drawer"})
    => LET out == contextHolder[s].props
       IN /\ Has(out, "maskClosable")
          /\ out["maskClosable"] = IF Has(props[s], "maskClosable")
                                   THEN props[s]["maskClosable"] ELSE "false"

\* C15, amended: the caller's maskClosable always wins; without one the Drawer
\* adapter produces maskClosable = false, while the Modal adapter produces the
\* value of defaultModalProps if that has one and no maskClosable otherwise.
C15_MaskClosableDefault ==
  \A s \in Sites :
    (mounted[s] /\ renderEnable[s] /\ AdapterOf(hook[s]) \in {"modal", "drawer"})
    => LET out == contextHolder[s].props
           d == ContextDefaultModalProps
       IN IF Has(props[s], "maskClosable")
          THEN Has(out, "maskClosable") /\ out["maskClosable"] = props[s]["maskClosable"]
          ELSE IF AdapterOf(hook[s]) = "drawer"
          THEN Has(out, "maskClosable") /\ out["maskClosable"] = "false"
          ELSE IF Has(d, "maskClosable")
          THEN Has(out, "maskClosable") /\ out["maskClosable"] = d["maskClosable"]
          ELSE ~Has(out, "maskClosable")

\* a Modal rendered from props and defaults without maskClosable has none
C15_Witness ==
  \E s \in Sites :
    /\ mounted[s] /\ renderEnable[s] /\ AdapterOf(hook[s]) = "modal"
    /\ props[s] # Undefined
    /\ ~Has(props[s], "maskClosable")
    /\ ~Has(ContextDefaultModalProps, "maskClosable")
    /\ ~Has(contextHolder[s].props, "maskClosable")

\* C16: every step in which open goes from false to true is a call of the
\* opener, and after it renderEnable is true, whatever the state before
\* (never opened, closing, or fully closed).
C16_OpeningMounts ==
  \A s \in Sites :
    (/\ lastOp.site = s
     /\ mounted[s]
     /\ ~lastOp.pre.open
     /\ open[s])
    => /\ lastOp.op = "open"
       /\ renderEnable[s]

\* the opener is called while the previous session is still closing
C16_Witness ==
  \E s \in Sites :
    /\ lastOp.op = "open" /\ lastOp.site = s
    /\ ~lastOp.pre.open /\ lastOp.pre.renderEnable
    /\ open[s] /\ renderEnable[s]

\* C17: requestClose is idempotent under both animation policies: after one
\* call a second call changes nothing in (renderEnable, open, props); a call
\* made while already closing or fully closed leaves the state as it was.
C17_RequestCloseIdempotent ==
  \A s \in Sites :
    (IsRequestClose /\ lastOp.site = s /\ mounted[s])
    => LET pre == [open |-> lastOp.pre.open, renderEnable |-> lastOp.pre.renderEnable,
                   props |-> lastOp.pre.props]
       IN /\ HandleClose(Lifecycle(s), animationRef[s]) = Lifecycle(s)
          /\ Lifecycle(s) = HandleClose(pre, lastOp.pre.animation)
          /\ (~pre.open /\ lastOp.pre.animation) => Lifecycle(s) = pre
          /\ (~pre.renderEnable /\ ~lastOp.pre.animation) => Lifecycle(s) = pre

\* requestClose is called while the overlay is already closing
C17_Witness ==
  \E s \in Sites :
    /\ IsRequestClose /\ lastOp.site = s /\ mounted[s]
    /\ lastOp.pre.animation
    /\ ~lastOp.pre.open /\ lastOp.pre.renderEnable
    /\ ~open[s] /\ renderEnable[s]
    /\ props[s] = lastOp.pre.props

\* C18: in every state the contextHolder of a call site carries the same key
\* (keyPrefix plus the call site's id); while renderEnable is false it is an
\* empty node with that key, while renderEnable is true it is the overlay
\* component with that key and props propsAdapter(props, {open, onClose,
\* onAnimationEnd}).
C18_PlaceholderMatchesState ==
  \A s \in Sites :
    mounted[s]
    => /\ contextHolder[s].key = RenderKey(hook[s], s)
       /\ contextHolder[s].key = <<KeyPrefix(hook[s]), s>>
       /\ (lastOp.site = s /\ lastOp.op # "mount")
            => contextHolder[s].key = lastOp.pre.holder.key
       /\ ~renderEnable[s]
            => /\ contextHolder[s].type = "Fragment"
               /\ contextHolder[s].props = Undefined
       /\ renderEnable[s]
            => /\ contextHolder[s].type = "OverlayComponent"
               /\ contextHolder[s].props
                    = PropsAdapter(hook[s], ContextDefaultModalProps, props[s],
                                   [open |-> open[s]])
               /\ contextHolder[s].props["open"] = B2S(open[s])
               /\ contextHolder[s].props["customClose"] = OnClose

\* a closing overlay: still the component, now handed open = false
C18_Witness ==
  \E s \in Sites :
    /\ mounted[s] /\ renderEnable[s] /\ ~open[s]
    /\ lastOp.site = s /\ lastOp.pre.open
    /\ lastOp.pre.holder.props["open"] = "true"
    /\ contextHolder[s].type = "OverlayComponent"
    /\ contextHolder[s].props["open"] = "false"
    /\ contextHolder[s].key = lastOp.pre.holder.key

\* C19: after a session has fully closed (renderEnable false), update(p) and
\* close() on its controller do not throw, leave renderEnable false and the
\* contextHolder the empty node; and every later call of the opener with q
\* starts a session whose props are exactly q.
C19_ClosedControllerIsInert ==
  \A s \in Sites :
    (lastOp.site = s /\ mounted[s])
    => /\ (/\ lastOp.op \in {"update", "close"}
           /\ lastOp.ctrl \in controllers[s]
           /\ ~lastOp.pre.renderEnable)
         => /\ ~Invoked("throw")
            /\ ~renderEnable[s]
            /\ EmptyPlaceholder(s)
       /\ lastOp.op = "open"
         => /\ props[s] = lastOp.arg
            /\ renderEnable[s] /\ open[s]
            /\ ~Invoked("throw")

\* update(p) with new props on the controller of a fully closed session
C19_Witness ==
  \E s \in Sites :
    /\ lastOp.site = s /\ mounted[s]
    /\ lastOp.op = "update" /\ lastOp.ctrl = "current"
    /\ ~lastOp.pre.renderEnable
    /\ lastOp.arg # lastOp.pre.props
    /\ ~renderEnable[s]
    /\ EmptyPlaceholder(s)

C21_PlainCloseClearsOpen ==
  \A s \in Sites :
    (IsRequestClose /\ lastOp.site = s /\ mounted[s] /\ ~lastOp.pre.animation)
    => /\ ~renderEnable[s]
       /\ ~open[s]

\* C22: onAnimationEnd received while open is true (no close requested in the
\* current session) leaves renderEnable true: the open overlay stays mounted.
C22_SpuriousAnimationEndIsSafe ==
  \A s \in Sites :
    (/\ lastOp.site = s /\ mounted[s]
     /\ Invoked(OnAnimationEnd) /\ ~Invoked(OnClose)
     /\ lastOp.pre.renderEnable /\ lastOp.pre.open)
    => /\ renderEnable[s]
       /\ open[s]

\* the call sites that are mounted with a global hook
LiveGlobalSites == {s \in Sites : mounted[s] /\ IsGlobal(hook[s])}

\* C23: after any sequence of mounts, opener / update / requestClose /
\* onAnimationEnd calls and teardowns, the holders contain exactly one entry
\* for each live global call site and none for a torn-down one, whatever the
\* state of the call site at teardown.
C23_OneHolderPerLiveSite ==
  /\ Len(holders) = Cardinality(LiveGlobalSites)
  /\ \A s \in LiveGlobalSites :
       Cardinality({i \in 1..Len(holders) : holders[i].key = contextHolder[s].key}) = 1
  /\ \A i \in 1..Len(holders) :
       \E s \in LiveGlobalSites : holders[i].key = RenderKey(hook[s], s)
  /\ \A s \in Sites :
       (lastOp.op = "unmount" /\ lastOp.site = s)
       => \A i \in 1..Len(holders) : /\ holders[i].id # lastOp.pre.holder.id
                                     /\ holders[i].key # lastOp.pre.holder.key

\* a call site is torn down while its overlay is open and another call site
\* stays registered
C23_Witness ==
  \E s \in Sites :
    /\ lastOp.op = "unmount" /\ lastOp.site = s
    /\ lastOp.pre.open /\ lastOp.pre.renderEnable
    /\ Len(lastOp.pre.holders) = 2
    /\ Len(holders) = 1
    /\ Cardinality(LiveGlobalSites) = 1

\* the place of the holder with key k in the sequence hs (0 when absent)
PosOf(hs, k) ==
  IF \E i \in 1..Len(hs) : hs[i].key = k
  THEN CHOOSE i \in 1..Len(hs) : hs[i].key = k
  ELSE 0

\* C24: the relative order in the holders of the placeholders of two live
\* global call sites is the order in which the call sites were first rendered:
\* a mounting call site comes last, and no opener, update, requestClose or
\* onAnimationEnd call on either call site changes the order.
C24_OrderIsMountOrder ==
  \A s \in LiveGlobalSites, t \in LiveGlobalSites :
    LET ks == RenderKey(hook[s], s)
        kt == RenderKey(hook[t], t)
    IN /\ (lastOp.op = "mount" /\ lastOp.site = t /\ s # t)
            => PosOf(holders, ks) < PosOf(holders, kt)
       /\ (lastOp.op \in {"open", "update", "close", "afterClose"} /\ s # t)
            => (PosOf(holders, ks) < PosOf(holders, kt)
                  <=> PosOf(lastOp.pre.holders, ks) < PosOf(lastOp.pre.holders, kt))

\* C25: for a global call site, the node the provider holds for it is the
\* placeholder the same lifecycle returns to a local call site in the current
\* (renderEnable, open, props): the provider never renders an outdated
\* placeholder after opener, update, requestClose or onAnimationEnd.
C25_HeldNodeIsCurrent ==
  \A s \in LiveGlobalSites :
    LET want == Element(LocalOf(hook[s]), s, Lifecycle(s))
    IN /\ \E i \in 1..Len(holders) : holders[i] = contextHolder[s]
       /\ \A i \in 1..Len(holders) :
            holders[i].key = RenderKey(hook[s], s)
            => /\ holders[i].key = want.key
               /\ holders[i].type = want.type
               /\ holders[i].props = want.props

\* after update(p) on an open global overlay the provider holds the component
\* with the new props
C25_Witness ==
  \E s \in LiveGlobalSites :
    /\ lastOp.op = "update" /\ lastOp.site = s
    /\ lastOp.pre.open /\ lastOp.pre.renderEnable
    /\ lastOp.arg # lastOp.pre.props
    /\ Len(holders) = 1
    /\ holders[1].type = "OverlayComponent"
    /\ holders[1].props # lastOp.pre.holder.props
    /\ holders[1].props
         = PropsAdapter(LocalOf(hook[s]), ContextDefaultModalProps, lastOp.arg,
                        [open |-> TRUE])

\* the index of the last call fn(n) in the batch q (0 when there is none)
LastCall(q, fn, n) ==
  LET I == {i \in 1..Len(q) : q[i].fn = fn /\ q[i].node.id = n.id}
  IN IF I = {} THEN 0 ELSE CHOOSE i \in I : \A j \in I : j <= i

\* C26: for any interleaving of addHolder and removeHolder calls, several of
\* them queued before the provider renders again included, the holders are
\* exactly the nodes registered and not deregistered afterwards, each once and
\* in registration order: no call overwrites or drops another caller's entry.
C26_BatchedCallsCompose ==
  lastOp.op = "contextCalls"
  => LET q == regCalls
         pre == lastOp.pre.holders
         PrePos(n) == IF \E i \in 1..Len(pre) : pre[i].id = n.id
                      THEN CHOOSE i \in 1..Len(pre) : pre[i].id = n.id
                      ELSE 0
         Survives(n) == \/ LastCall(q, "addHolder", n) > LastCall(q, "removeHolder", n)
                        \/ /\ PrePos(n) > 0
                           /\ LastCall(q, "removeHolder", n) = 0
         Rank(n) == IF LastCall(q, "addHolder", n) > 0
                    THEN Len(pre) + LastCall(q, "addHolder", n)
                    ELSE PrePos(n)
     IN /\ \A n \in ContextNodes :
             Cardinality({i \in 1..Len(holders) : holders[i] = n})
               = IF Survives(n) THEN 1 ELSE 0
        /\ \A i \in 1..Len(holders) : holders[i] \in ContextNodes
        /\ \A i \in 1..Len(holders), j \in 1..Len(holders) :
             i < j => Rank(holders[i]) < Rank(holders[j])

\* two calls queued in one batch by different callers: one deregisters its
\* node, the other registers a new one, and both take effect
C26_Witness ==
  /\ lastOp.op = "contextCalls"
  /\ Len(lastOp.pre.holders) = 2
  /\ Len(regCalls) = 2
  /\ regCalls[1].fn = "removeHolder"
  /\ regCalls[1].node = lastOp.pre.holders[1]
  /\ regCalls[2].fn = "addHolder"
  /\ regCalls[2].node.id # regCalls[1].node.id
  /\ holders = <<lastOp.pre.holders[2], regCalls[2].node>>

\* C27: whenever the overlay component is mounted, invoking the customOk it
\* was given requests close of the overlay, also when the caller's props
\* contain no customOk of their own.
C27_ConfirmAlwaysCloses ==
  \A s \in Sites :
    (lastOp.op = "customOk" /\ lastOp.site = s /\ mounted[s])
    => /\ Invoked(OnClose)
       /\ Lifecycle(s)
            = HandleClose([open |-> lastOp.pre.open,
                           renderEnable |-> lastOp.pre.renderEnable,
                           props |-> lastOp.pre.props], lastOp.pre.animation)

\* C28: update changes only props and requestClose never changes props:
\* update(p) after a requested close leaves open and renderEnable as they are,
\* and each update or close call yields the state obtained by applying it to
\* the state the previous call left.
C28_UpdateAndCloseAreIndependent ==
  \A s \in Sites :
    (lastOp.site = s /\ mounted[s])
    => LET pre == [open |-> lastOp.pre.open, renderEnable |-> lastOp.pre.renderEnable,
                   props |-> lastOp.pre.props]
       IN /\ lastOp.op = "update"
            => /\ open[s] = pre.open
               /\ renderEnable[s] = pre.renderEnable
               /\ props[s] = lastOp.arg
               /\ Lifecycle(s) = ControllerUpdate(pre, lastOp.arg)
          /\ IsRequestClose
            => /\ props[s] = pre.props
               /\ Lifecycle(s) = HandleClose(pre, lastOp.pre.animation)

\* update(p) while the overlay is closing: it stays closing, with props p
C28_Witness ==
  \E s \in Sites :
    /\ lastOp.op = "update" /\ lastOp.site = s /\ mounted[s]
    /\ lastOp.pre.renderEnable /\ ~lastOp.pre.open
    /\ lastOp.arg # lastOp.pre.props
    /\ renderEnable[s] /\ ~open[s]
    /\ props[s] = lastOp.arg

\* C29: without animation, onAnimationEnd leaves renderEnable, open and props
\* unchanged in every state; with animation its only effect is to set
\* renderEnable to false.
C29_AnimationEndFrame ==
  \A s \in Sites :
    (/\ lastOp.site = s /\ mounted[s]
     /\ Invoked(OnAnimationEnd) /\ ~Invoked(OnClose))
    => /\ open[s] = lastOp.pre.open
       /\ props[s] = lastOp.pre.props
       /\ renderEnable[s] = IF lastOp.pre.animation THEN FALSE
                            ELSE lastOp.pre.renderEnable

\* the Modal reports afterClose while animation is off: nothing changes
C29_Witness ==
  \E s \in Sites :
    /\ lastOp.op = "afterClose" /\ lastOp.site = s /\ mounted[s]
    /\ Invoked(OnAnimationEnd)
    /\ ~lastOp.pre.animation
    /\ lastOp.pre.renderEnable /\ renderEnable[s]
    /\ open[s] = lastOp.pre.open
    /\ props[s] = lastOp.pre.props

\* C30: a completion callback the caller supplied is still delivered: the
\* Modal adapter calls the caller's afterClose before onAnimationEnd on every
\* closing completion; the Drawer adapter calls the caller's
\* afterOpenChange(flag) for both flags, before onAnimationEnd when flag is
\* false.
C30_CallerCallbacksDelivered ==
  \A s \in Sites :
    (lastOp.site = s /\ mounted[s])
    => /\ (lastOp.op = "afterClose" /\ Has(lastOp.pre.props, "afterClose"))
            => calls = <<Call(lastOp.pre.props["afterClose"], ""),
                         Call(OnAnimationEnd, "")>>
       /\ (lastOp.op = "afterOpenChange" /\ Has(lastOp.pre.props, "afterOpenChange"))
            => calls = <<Call(lastOp.pre.props["afterOpenChange"], lastOp.val)>>
                         \o (IF lastOp.val = "false"
                             THEN <<Call(OnAnimationEnd, "")>> ELSE << >>)

\* the Modal finished closing: the caller's afterClose ran, then the unmount
C30_Witness ==
  \E s \in Sites :
    /\ lastOp.op = "afterClose" /\ lastOp.site = s /\ mounted[s]
    /\ Has(lastOp.pre.props, "afterClose")
    /\ lastOp.pre.animation /\ ~lastOp.pre.open /\ lastOp.pre.renderEnable
    /\ Len(calls) = 2
    /\ calls[1].fn = "onAfterClose"
    /\ calls[2].fn = OnAnimationEnd
    /\ ~renderEnable[s]

\* C31: for the default, Modal and Drawer adapters, the open flag and the
\* close callback handed to the overlay component are the lifecycle's open and
\* handleClose, also when the caller's props or the provider's defaults
\* contain open or customClose entries of their own.
C31_AdapterOwnsOpenAndClose ==
  \A s \in Sites :
    (mounted[s] /\ renderEnable[s])
    => LET out == contextHolder[s].props
       IN /\ Has(out, "open") /\ out["open"] = B2S(open[s])
          /\ Has(out, "customClose") /\ out["customClose"] = OnClose
          /\ (lastOp.op = "customClose" /\ lastOp.site = s)
               => calls = <<Call(OnClose, "")>>

\* the caller passed open = false and a customClose of its own to an overlay
\* that is open: the component is handed open = true and handleClose
C31_Witness ==
  \E s \in Sites :
    /\ mounted[s] /\ renderEnable[s] /\ open[s]
    /\ AdapterOf(hook[s]) = "default"
    /\ Has(props[s], "open") /\ props[s]["open"] = "false"
    /\ Has(props[s], "customClose") /\ props[s]["customClose"] # OnClose
    /\ contextHolder[s].props["open"] = "true"
    /\ contextHolder[s].props["customClose"] = OnClose
====
